---- MODULE Spec2Model ----
(***************************************************************************)
(* Model of src/accumulate.py: the timestamp bucketing function            *)
(* downsample_to_pow and the AccumulateRunner pipeline                     *)
(* (get_trades_data -> mark_qualified_trades -> run_accumulate_strat).     *)
(*                                                                         *)
(* Units.  PriceMillionths is counted in units of 10^6 millionths (whole   *)
(* currency units) and SizeBillionths in units of 10^9 billionths (whole   *)
(* contracts), so that  SizeBillionths * (PriceMillionths / 1e6) / 1e9  of *)
(* the source is the product of the two model numbers.  The participation  *)
(* rate is the rational target_prt_rate / RateDen; every column that is a  *)
(* multiple of the rate (target_prt, notional, their running sums) holds   *)
(* the numerator over RateDen.  The two VWAP columns are quotients and are *)
(* kept as [num, den]; den = 0 is the NaN that 0/0 gives in the source.    *)
(***************************************************************************)
EXTENDS Integers, Sequences, FiniteSets, TLC

VARIABLES
    val,               \* downsample_to_pow: the values it is called on
    pow10,             \* downsample_to_pow: its pow10 argument
    bucketed,          \* downsample_to_pow: the outcomes so far, one per value
    side,              \* AccumulateRunner.side
    downsample_rate,   \* AccumulateRunner.downsample_rate
    file,              \* rows of the trades file, sorted by dt
    pc,                \* "read" | "loaded" | "done"
    trades,            \* the frame get_trades_data returned
    target_prt_rate,   \* argument of run_accumulate_strat (numerator over RateDen)
    target_notional,   \* argument of run_accumulate_strat
    df,                \* the accumulated frame (all columns, before trimming)
    result,            \* the frame run_accumulate_strat returned
    outcome            \* "none" | "returned" | the name of the exception raised

vars == <<val, pow10, bucketed, side, downsample_rate, file, pc, trades,
          target_prt_rate, target_notional, df, result, outcome>>

bucket_vars == <<val, pow10, bucketed>>
runner_vars == <<side, downsample_rate, file, pc, trades, target_prt_rate,
                 target_notional, df, result, outcome>>

-----------------------------------------------------------------------------
(* Bounds and input domains *)

MaxRows == 3          \* rows in the trades file
RateDen == 2          \* participation rates are multiples of 1 / RateDen
MaxTarget == 2        \* target_notional is 1 or MaxTarget

\* With downsample_rate = 1: 5 fails the digit-length assertion, 105 is in
\* bucket 110, 190 in bucket 190, and 195 (rounding overflow) in bucket 110.
FileTimestamps == {5, 105, 190, 195}
FilePrices == {1, 2, 3}
FileSizes == {1, 2}
DownsampleRates == {1}
Rates == {0, 1, RateDen}

\* Values downsample_to_pow is tried on: hi * 10^(p+1) + lead * 10^(p-1) + rest
BucketPows == {1, 2, 6}
BucketHi == {0, 1, 9, 12, 123}
BucketLead == {0, 1, 9, 10, 11, 45, 89, 90, 91, 95, 99}

fee_rate == 50
start_date_ns == 0
row_limit == 100000

-----------------------------------------------------------------------------
(* Python strings of decimal digits, as sequences of digits *)

RECURSIVE PyStr(_)
PyStr(v) == IF v < 10 THEN <<v>> ELSE Append(PyStr(v \div 10), v % 10)

RECURSIVE PyInt(_)
PyInt(s) ==
    IF s = <<>> THEN 0
    ELSE PyInt(SubSeq(s, 1, Len(s) - 1)) * 10 + s[Len(s)]

\* s[:-n]
SliceHead(s, n) == IF Len(s) > n THEN SubSeq(s, 1, Len(s) - n) ELSE <<>>

\* s[-n:]
SliceTail(s, n) == IF Len(s) > n THEN SubSeq(s, Len(s) - n + 1, Len(s)) ELSE s

\* s[:k]
SlicePrefix(s, k) == IF Len(s) > k THEN SubSeq(s, 1, k) ELSE s

\* k * '0'
Zeros(k) == [i \in 1..k |-> 0]

\* roundup with floor in place of ceil
roundup_floor(x) == (x \div 10) * 10

\* roundup = lambda x: int(ceil(x / 10.0)) * 10
roundup(x) == ((x + 9) \div 10) * 10

\* downsample_to_pow: [ok |-> the assertion on the digit length passed,
\*                     final |-> the value it returns when it did]
downsample_to_pow(v, p) ==
    LET n == p + 1
        s == PyStr(v)
        hi == SliceHead(s, n)
        lo == SliceTail(s, n)
        suffix == <<PyStr(roundup(PyInt(SlicePrefix(lo, 2))))[1]>> \o Zeros(p)
        final == PyInt(hi \o suffix)
    IN  [ok |-> Len(PyStr(final)) = Len(s), final |-> final]

-----------------------------------------------------------------------------
(* Data frames: sequences of rows (records); the index is the dt field *)

RECURSIVE SortedKeys(_)
\* the group keys in ascending order (groupby sorts its keys)
SortedKeys(S) ==
    IF S = {} THEN <<>>
    ELSE LET m == CHOOSE x \in S : \A y \in S : x <= y
         IN  <<m>> \o SortedKeys(S \ {m})

RECURSIVE Concat(_)
\* pd.concat of a sequence of frames
Concat(frames) ==
    IF frames = <<>> THEN <<>> ELSE Head(frames) \o Concat(Tail(frames))

Index(d) == [i \in 1..Len(d) |-> d[i].dt]

has_duplicates(ax) == \E i, j \in 1..Len(ax) : i < j /\ ax[i] = ax[j]

\* algorithms.unique1d: the distinct labels in order of first appearance
unique1d(ax) ==
    LET first(i) == \A j \in 1..(i - 1) : ax[j] # ax[i]
        F[i \in 0..Len(ax)] ==
            IF i = 0 THEN <<>>
            ELSE IF first(i) THEN Append(F[i - 1], ax[i]) ELSE F[i - 1]
    IN  F[Len(ax)]

\* the rows of d labelled t, in the order d has them
RowsAt(d, t) ==
    LET F[i \in 0..Len(d)] ==
            IF i = 0 THEN <<>>
            ELSE IF d[i].dt = t THEN Append(F[i - 1], d[i]) ELSE F[i - 1]
    IN  F[Len(d)]

\* What groupby(...).apply does with the frames a like-indexed function
\* returned: concatenate them in key order, then restore the order of the
\* original axis ax (reindex; with duplicate labels, take the rows label by
\* label in the order the labels first appear in ax).
restore_order(values, ax) ==
    IF has_duplicates(ax) /\ Index(values) # ax
    THEN LET target == unique1d(ax)
         IN  Concat([k \in 1..Len(target) |-> RowsAt(values, target[k])])
    ELSE IF Index(values) = ax THEN values
    ELSE [i \in 1..Len(ax) |-> RowsAt(values, ax[i])[1]]

SeqMax(s) == CHOOSE x \in {s[i] : i \in 1..Len(s)} : \A i \in 1..Len(s) : s[i] <= x
SeqMin(s) == CHOOSE x \in {s[i] : i \in 1..Len(s)} : \A i \in 1..Len(s) : x <= s[i]

WithQual(r, q) ==
    [dt |-> r.dt, Side |-> r.Side, PriceMillionths |-> r.PriceMillionths,
     SizeBillionths |-> r.SizeBillionths, dt_ds |-> r.dt_ds, is_qual |-> q]

\* _mark_qualified with max and min the wrong way round
mark_qualified_swapped(g, s) ==
    LET prices == [i \in 1..Len(g) |-> g[i].PriceMillionths]
        qual_price == IF s > 0 THEN SeqMin(prices) ELSE SeqMax(prices)
    IN  [i \in 1..Len(g) |->
            WithQual(g[i], IF g[i].PriceMillionths = qual_price THEN 1 ELSE 0)]

\* AccumulateRunner._mark_qualified on one group g
mark_qualified(g, s) ==
    IF Len(g) = 1 THEN <<WithQual(g[1], 1)>>
    ELSE LET prices == [i \in 1..Len(g) |-> g[i].PriceMillionths]
             qual_price == IF s > 0 THEN SeqMax(prices) ELSE SeqMin(prices)
         IN  [i \in 1..Len(g) |->
                 WithQual(g[i], IF g[i].PriceMillionths = qual_price THEN 1 ELSE 0)]

\* the rows of d whose bucket id is k, in the order d has them
Group(d, k) ==
    LET F[i \in 0..Len(d)] ==
            IF i = 0 THEN <<>>
            ELSE IF d[i].dt_ds = k THEN Append(F[i - 1], d[i]) ELSE F[i - 1]
    IN  F[Len(d)]

\* AccumulateRunner.mark_qualified_trades:
\* [ok |-> no call of downsample_to_pow raised, rows |-> the frame returned]
mark_qualified_trades(d, s, rate) ==
    LET b == [i \in 1..Len(d) |-> downsample_to_pow(d[i].dt, rate)]
        with_ds == [i \in 1..Len(d) |->
                      [dt |-> d[i].dt, Side |-> d[i].Side,
                       PriceMillionths |-> d[i].PriceMillionths,
                       SizeBillionths |-> d[i].SizeBillionths,
                       dt_ds |-> b[i].final]]
        keys == SortedKeys({with_ds[i].dt_ds : i \in 1..Len(d)})
        values == Concat([k \in 1..Len(keys) |->
                            mark_qualified(Group(with_ds, keys[k]), s)])
    IN  IF \E i \in 1..Len(d) : ~b[i].ok
        THEN [ok |-> FALSE, rows |-> <<>>]
        ELSE [ok |-> TRUE, rows |-> restore_order(values, Index(d))]

\* the rows of get_trades_data's frame when it reaches mark_qualified_trades:
\* the side filter, the start date and the row limit
loaded_rows(f, s) ==
    LET F[i \in 0..Len(f)] ==
            IF i = 0 THEN <<>>
            ELSE IF f[i].Side * s > 0 /\ f[i].dt >= start_date_ns
                 THEN Append(F[i - 1], f[i]) ELSE F[i - 1]
        kept == F[Len(f)]
    IN  IF Len(kept) > row_limit THEN SubSeq(kept, 1, row_limit) ELSE kept

\* AccumulateRunner.get_trades_data
get_trades_data(f, s, rate) == mark_qualified_trades(loaded_rows(f, s), s, rate)

-----------------------------------------------------------------------------
(* run_accumulate_strat *)

\* Series.cumsum
cumsum(x) ==
    LET F[i \in 0..Len(x)] == IF i = 0 THEN 0 ELSE F[i - 1] + x[i]
    IN  [i \in 1..Len(x) |-> F[i]]

\* x.loc[mask].cumsum(), laid back on the rows of the mask; NA elsewhere
NA == -1
masked_cumsum(x, mask) ==
    LET c == cumsum([i \in 1..Len(x) |-> IF mask[i] THEN x[i] ELSE 0])
    IN  [i \in 1..Len(x) |-> IF mask[i] THEN c[i] ELSE NA]

\* a > b on two quotients; a comparison with NaN (den = 0) is false
Gt(a, b) == a.den > 0 /\ b.den > 0 /\ a.num * b.den > b.num * a.den

\* target_prt without the is_qual factor
target_prt_unqualified(r, s, rate) ==
    (IF r.Side * s > 0 THEN 1 ELSE 0) * rate * r.SizeBillionths

\* df['target_prt'] of one row (numerator over RateDen)
target_prt(r, s, rate) ==
    (IF r.Side * s > 0 THEN 1 ELSE 0) * r.is_qual * rate * r.SizeBillionths

\* the columns run_accumulate_strat adds to the frame d
accumulate(d, s, rate) ==
    LET N == 1..Len(d)
        same_side == [i \in N |-> d[i].Side * s > 0]
        qual_mask == [i \in N |-> same_side[i] /\ d[i].is_qual = 1]
        size == [i \in N |-> d[i].SizeBillionths]
        side_own == masked_cumsum(size, same_side)
        side_other == masked_cumsum(size, [i \in N |-> ~same_side[i]])
        volm_all == cumsum(size)
        volm_qual == masked_cumsum(size, qual_mask)
        prt == [i \in N |-> target_prt(d[i], s, rate)]
        prt_cumsum == cumsum(prt)
        notional == [i \in N |-> prt[i] * d[i].PriceMillionths]
        notional_cumsum == cumsum(notional)
        market_num == cumsum([i \in N |-> size[i] * d[i].PriceMillionths])
    IN  [i \in N |->
            [dt |-> d[i].dt, Side |-> d[i].Side,
             PriceMillionths |-> d[i].PriceMillionths,
             SizeBillionths |-> d[i].SizeBillionths,
             dt_ds |-> d[i].dt_ds, is_qual |-> d[i].is_qual,
             cum_volm_side |-> IF same_side[i] THEN side_own[i] ELSE side_other[i],
             cum_volm_all |-> volm_all[i],
             cum_volm_qual |-> volm_qual[i],
             target_prt |-> prt[i],
             target_prt_cumsum |-> prt_cumsum[i],
             notional |-> notional[i],
             vwap_cumsum |-> [num |-> notional_cumsum[i], den |-> prt_cumsum[i]],
             fees |-> (notional[i] * fee_rate * 100000) \div RateDen,
             market_vwap |-> [num |-> market_num[i], den |-> volm_all[i]],
             since_arrival |-> d[i].dt_ds - d[1].dt_ds]]

\* run_accumulate_strat without its assertion
vwap_unchecked(d) == TRUE

\* assert not (df['market_vwap'] > df['vwap_cumsum']).sum()
vwap_assert(d) ==
    ~ \E i \in 1..Len(d) : Gt(d[i].market_vwap, d[i].vwap_cumsum)

\* df['notional'].cumsum() / 1e9 > target_notional: the rows where it holds
crossed(d, target) ==
    LET c == cumsum([i \in 1..Len(d) |-> d[i].notional])
    IN  {i \in 1..Len(d) : c[i] > target * RateDen}

\* df['notional'].sum() / 1e9 (numerator over RateDen)
traded_notional(d) ==
    IF d = <<>> THEN 0 ELSE cumsum([i \in 1..Len(d) |-> d[i].notional])[Len(d)]

\* df.loc[:label] on the ascending index: every row labelled <= label
loc_upto(d, label) ==
    LET F[i \in 0..Len(d)] ==
            IF i = 0 THEN <<>>
            ELSE IF d[i].dt <= label THEN Append(F[i - 1], d[i]) ELSE F[i - 1]
    IN  F[Len(d)]

\* the if/else that ends run_accumulate_strat
trim(d, target) ==
    IF traded_notional(d) < target * RateDen
    THEN [outcome |-> "InsufficientRowsError", rows |-> <<>>]
    ELSE IF crossed(d, target) = {}
    THEN [outcome |-> "IndexError", rows |-> <<>>]
    ELSE LET first == CHOOSE i \in crossed(d, target) :
                          \A j \in crossed(d, target) : i <= j
             last_idx == d[first].dt
         IN  [outcome |-> "returned", rows |-> loc_upto(d, last_idx)]

-----------------------------------------------------------------------------
(* The runner as a state machine *)

\* The rows a file read by a runner of side s may hold: trades of that side
\* (the loader drops every other row before anything reads it).
FileRows(s) ==
    [dt : FileTimestamps, Side : {s},
     PriceMillionths : FilePrices, SizeBillionths : FileSizes]

BucketIdle == val = <<>> /\ pow10 = 0 /\ bucketed = <<>>

Init ==
    /\ BucketIdle
    /\ side \in {1, -1}
    /\ downsample_rate \in DownsampleRates
    /\ file = <<>>
    /\ pc = "read"
    /\ trades = <<>>
    /\ target_prt_rate = 0
    /\ target_notional = 0
    /\ df = <<>>
    /\ result = <<>>
    /\ outcome = "none"

\* one more row of the file, which the loader has sorted by dt
ReadRow ==
    /\ pc = "read"
    /\ Len(file) < MaxRows
    /\ \E r \in FileRows(side) :
          /\ (IF file = <<>> THEN TRUE ELSE file[Len(file)].dt <= r.dt)
          /\ file' = Append(file, r)
    /\ UNCHANGED <<bucket_vars, side, downsample_rate, pc, trades,
                   target_prt_rate, target_notional, df, result, outcome>>

\* the call of get_trades_data that opens run_accumulate_strat
GetTradesData ==
    /\ pc = "read"
    /\ LET got == get_trades_data(file, side, downsample_rate)
       IN  IF got.ok
           THEN /\ trades' = got.rows
                /\ pc' = "loaded"
                /\ outcome' = "none"
           ELSE /\ trades' = <<>>
                /\ pc' = "done"
                /\ outcome' = "AssertionError"
    /\ UNCHANGED <<bucket_vars, side, downsample_rate, file,
                   target_prt_rate, target_notional, df, result>>

\* the rest of run_accumulate_strat: the columns, the assertion, the trimming
RunAccumulateStrat ==
    /\ pc = "loaded"
    /\ \E rate \in Rates, target \in {1, MaxTarget} :
          /\ target_prt_rate' = rate
          /\ target_notional' = target
          /\ IF trades = <<>>
             THEN /\ df' = <<>>
                  /\ result' = <<>>
                  /\ outcome' \in {"KeyError", "IndexError"}
             ELSE LET acc == accumulate(trades, side, rate)
                      t == trim(acc, target)
                  IN  /\ df' = acc
                      /\ IF vwap_assert(acc)
                         THEN /\ outcome' = t.outcome
                              /\ result' = t.rows
                         ELSE /\ outcome' = "AssertionError"
                              /\ result' = <<>>
    /\ pc' = "done"
    /\ UNCHANGED <<bucket_vars, side, downsample_rate, file, trades>>

Next == ReadRow \/ GetTradesData \/ RunAccumulateStrat

Spec == Init /\ [][Next]_vars

-----------------------------------------------------------------------------
(* downsample_to_pow on its own: a pair of values and one exponent *)

RECURSIVE Pow10(_)
Pow10(k) == IF k = 0 THEN 1 ELSE 10 * Pow10(k - 1)

BucketValues(p) ==
    {h * Pow10(p + 1) + l * Pow10(p - 1) + r :
        h \in BucketHi, l \in BucketLead, r \in {0, Pow10(p - 1) - 1}}
    \cup (IF p = 6 THEN {1234567890} ELSE {})

RunnerIdle ==
    /\ side = 1
    /\ downsample_rate = 6
    /\ file = <<>>
    /\ pc = "idle"
    /\ trades = <<>>
    /\ target_prt_rate = 0
    /\ target_notional = 0
    /\ df = <<>>
    /\ result = <<>>
    /\ outcome = "none"

InitBucket ==
    /\ pow10 \in BucketPows
    /\ val \in BucketValues(pow10) \X BucketValues(pow10)
    /\ bucketed = <<>>
    /\ RunnerIdle

\* one call of downsample_to_pow, on the next value
Downsample ==
    /\ Len(bucketed) < Len(val)
    /\ bucketed' = Append(bucketed, downsample_to_pow(val[Len(bucketed) + 1], pow10))
    /\ UNCHANGED <<val, pow10, runner_vars>>

NextBucket == Downsample

SpecBucket == InitBucket /\ [][NextBucket]_vars

-----------------------------------------------------------------------------
(* Properties of downsample_to_pow (checked under SpecBucket) *)

DigitLen(v) == IF v < 10 THEN 1 ELSE Len(PyStr(v))

\* the two leading digits of the low part (the last p + 1 digits) of v
Lead2(v, p) == (v % Pow10(p + 1)) \div Pow10(p - 1)

\* v rounded down to the bucket grain
Grain(v, p) == (v \div Pow10(p)) * Pow10(p)

LongEnough(v, p) == v >= Pow10(p + 1)
NoOverflow(v, p) == LongEnough(v, p) /\ Lead2(v, p) <= 90
Overflows(v, p) == Lead2(v, p) \in 91..99

Called == 1..Len(bucketed)

\* C4: when the two leading low digits are 91..99 (rounding up overflows to
\* 100), downsample_to_pow raises instead of returning a bucket id; in
\* particular it returns no id below the value truncated to the grain.
C4_OverflowRaises ==
    \A i \in Called :
        Overflows(val[i], pow10) =>
            /\ ~bucketed[i].ok
            /\ ~(bucketed[i].ok /\ bucketed[i].final < Grain(val[i], pow10))

\* C5: for values with more than pow10 + 1 digits whose two leading low
\* digits are 00..90, downsample_to_pow returns an id with as many digits as
\* the value, at least the value rounded down to the grain, and monotone in
\* the value; downsample_to_pow(1234567890, 6) = 1235000000.
C5_BucketOfValid ==
    /\ \A i \in Called :
          NoOverflow(val[i], pow10) =>
              /\ bucketed[i].ok
              /\ DigitLen(bucketed[i].final) = DigitLen(val[i])
              /\ bucketed[i].final >= Grain(val[i], pow10)
    /\ \A i, j \in Called :
          (NoOverflow(val[i], pow10) /\ NoOverflow(val[j], pow10)
              /\ val[i] <= val[j]) => bucketed[i].final <= bucketed[j].final
    /\ \A i \in Called :
          (val[i] = 1234567890 /\ pow10 = 6) => bucketed[i].final = 1235000000

C5_Witness ==
    /\ Len(bucketed) = 2
    /\ pow10 = 6
    /\ val[1] = 1234567890
    /\ NoOverflow(val[2], pow10)
    /\ val[1] < val[2]
    /\ bucketed[1].final < bucketed[2].final

-----------------------------------------------------------------------------
(* Properties of the runner (checked under Spec) *)

\* a <= b on two quotients; a comparison with NaN (den = 0) is false
Le(a, b) == a.den > 0 /\ b.den > 0 /\ a.num * b.den <= b.num * a.den

Loaded == pc = "loaded" \/ (pc = "done" /\ df # <<>>)
Accumulated == pc = "done" /\ df # <<>>
TrimReached == Accumulated /\ outcome # "AssertionError"
Returned == pc = "done" /\ outcome = "returned"

\* the running sum of the notional column up to row i
NotionalUpTo(i) ==
    LET F[k \in 0..i] == IF k = 0 THEN 0 ELSE F[k - 1] + df[k].notional
    IN  F[i]

Crossing(i) == NotionalUpTo(i) > target_notional * RateDen
FirstCrossing(i) == Crossing(i) /\ \A j \in 1..(i - 1) : ~Crossing(j)

\* C1: when some row's cumulative notional exceeds target_notional, the
\* trimming step returns exactly the prefix up to and including the first
\* such row, also when several trades share one timestamp.
C1_TrimAtFirstCrossing ==
    \A i \in 1..Len(df) :
        (TrimReached /\ FirstCrossing(i)) =>
            /\ outcome = "returned"
            /\ result = SubSeq(df, 1, i)

\* C2: when no row's cumulative notional exceeds target_notional (the total
\* equal to the target included), the run fails with InsufficientRowsError
\* and with no other error, and returns nothing.
C2_InsufficientWhenNoCrossing ==
    (TrimReached /\ \A i \in 1..Len(df) : ~Crossing(i)) =>
        /\ outcome = "InsufficientRowsError"
        /\ result = <<>>

\* C3 as stated: whenever a result is returned, market_vwap <= cum_vwap holds
\* at every row of the accumulated sequence, the rows before the first
\* qualified trade included.
C3_VwapAtEveryRow ==
    Returned =>
        \A i \in 1..Len(df) : Le(df[i].market_vwap, df[i].vwap_cumsum)

\* C3 as amended: whenever a result is returned, market_vwap <= cum_vwap holds
\* at every row at which something has been captured; a row with a capture
\* where market_vwap > cum_vwap aborts the run with no result.
C3_VwapWhereCaptured ==
    /\ Returned =>
          \A i \in 1..Len(df) :
              df[i].target_prt_cumsum > 0 =>
                  Le(df[i].market_vwap, df[i].vwap_cumsum)
    /\ (Accumulated /\ \E i \in 1..Len(df) :
                          /\ df[i].target_prt_cumsum > 0
                          /\ Gt(df[i].market_vwap, df[i].vwap_cumsum))
          => (outcome = "AssertionError" /\ result = <<>>)

C3_Witness ==
    /\ Returned
    /\ \E i \in 1..Len(df) : df[i].target_prt_cumsum = 0
    /\ \E i \in 1..Len(df) :
          /\ df[i].target_prt_cumsum > 0
          /\ Gt(df[i].vwap_cumsum, df[i].market_vwap)

\* the rows of the loaded frame in the bucket of row i
BucketOf(i) == {j \in 1..Len(trades) : trades[j].dt_ds = trades[i].dt_ds}

ExtremeInBucket(i) ==
    IF side > 0
    THEN \A j \in BucketOf(i) : trades[j].PriceMillionths <= trades[i].PriceMillionths
    ELSE \A j \in BucketOf(i) : trades[j].PriceMillionths >= trades[i].PriceMillionths

\* C6: a trade gets is_qual = 1 iff its bucket has exactly one trade or its
\* price is the bucket's maximum (side +1) / minimum (side -1); ties at the
\* extreme all qualify and every other trade gets is_qual = 0.
C6_QualifiedIffExtreme ==
    Loaded =>
        \A i \in 1..Len(trades) :
            /\ trades[i].is_qual \in {0, 1}
            /\ trades[i].is_qual = 1 <=>
                  (Cardinality(BucketOf(i)) = 1 \/ ExtremeInBucket(i))

C6_Witness ==
    /\ Loaded
    /\ \E i, j, k \in 1..Len(trades) :
          /\ i # j
          /\ {j, k} \subseteq BucketOf(i)
          /\ trades[i].PriceMillionths = trades[j].PriceMillionths
          /\ trades[i].is_qual = 1 /\ trades[j].is_qual = 1
          /\ trades[k].is_qual = 0

\* C7: on every bucketed and qualified sequence of same-side trades,
\* market_vwap <= cum_vwap at every row: the VWAP assertion never fires.
C7_VwapAssertionNeverFires ==
    Accumulated =>
        /\ outcome # "AssertionError"
        /\ \A i \in 1..Len(df) : ~Gt(df[i].market_vwap, df[i].vwap_cumsum)

SameTrade(a, b) ==
    /\ a.dt = b.dt
    /\ a.Side = b.Side
    /\ a.PriceMillionths = b.PriceMillionths
    /\ a.SizeBillionths = b.SizeBillionths

\* the frame mark_qualified_trades returned holds the trades it was given,
\* in the order it was given them
SameTradesSameOrder ==
    LET given == loaded_rows(file, side)
    IN  /\ Len(trades) = Len(given)
        /\ \A i \in 1..Len(given) : SameTrade(trades[i], given[i])

\* C8: mark_qualified_trades returns the trades of its input in the input's
\* order, untouched, and the buckets appear in ascending order, for every
\* input (timestamps whose rounding overflows included).
C8_SameTradesAscendingBuckets ==
    Loaded =>
        /\ SameTradesSameOrder
        /\ \A i \in 1..(Len(trades) - 1) : trades[i].dt_ds <= trades[i + 1].dt_ds

\* C8, the part that holds: the trades and their order (not the order of the
\* bucket ids) are those of the input.
C8_OrderKept == Loaded => SameTradesSameOrder

\* C9: target_participation is target_prt_rate * size on a same-side qualified
\* trade and 0 on any other, so 0 <= target_participation <= size, and
\* cum_target_participation is its running sum and never decreases.
C9_TargetParticipation ==
    Accumulated =>
        \A i \in 1..Len(df) :
            /\ df[i].target_prt =
                  (IF df[i].Side * side > 0 /\ df[i].is_qual = 1
                   THEN target_prt_rate * df[i].SizeBillionths ELSE 0)
            /\ 0 <= df[i].target_prt
            /\ df[i].target_prt <= RateDen * df[i].SizeBillionths
            /\ df[i].target_prt_cumsum =
                  (IF i = 1 THEN 0 ELSE df[i - 1].target_prt_cumsum)
                      + df[i].target_prt
            /\ i > 1 => df[i - 1].target_prt_cumsum <= df[i].target_prt_cumsum

C9_Witness ==
    /\ Accumulated
    /\ target_prt_rate = 1
    /\ \E i, j \in 1..Len(df) :
          /\ df[i].is_qual = 0 /\ df[i].target_prt = 0
          /\ df[j].is_qual = 1 /\ df[j].target_prt > 0
          /\ df[j].target_prt < RateDen * df[j].SizeBillionths

\* C10: on every accepted timestamp-ascending sequence the bucket ids never
\* decrease, so since_arrival is 0 on the first row, never negative and
\* never decreasing over the result.
C10_SinceArrivalMonotone ==
    Returned =>
        /\ result[1].since_arrival = 0
        /\ \A i \in 1..Len(result) : result[i].since_arrival >= 0
        /\ \A i \in 1..(Len(result) - 1) :
              /\ result[i].dt_ds <= result[i + 1].dt_ds
              /\ result[i].since_arrival <= result[i + 1].since_arrival

=============================================================================
